---- MODULE Spec2Model ----
(***************************************************************************)
(* Model of the ajillion JSON-RPC client (package rpcclient): the method   *)
(* proxy (attribute-chain router, handler selection, deserializer          *)
(* resolution), the synchronous request handler and the asynchronous       *)
(* task-polling handler.                                                   *)
(*                                                                         *)
(* Strings that the code inspects character by character (method names)    *)
(* are sequences of one-character strings.  Python's None is the integer   *)
(* None for numeric values and the string "None" for object references.    *)
(***************************************************************************)
EXTENDS Integers, Sequences, FiniteSets, TLC

\* ------------------------------------------------------------------------
\* Bounds of the model
\* ------------------------------------------------------------------------
MaxTimeout == 3
MaxSleep == 2
MaxFailures == 2
MaxDelay == 1
MaxRouters == 4
MaxTable == 2
MaxIndex == 2
MaxItems == 2
MaxClock == 2
\* longest request log of one poll sequence: submit, at most MaxTimeout + 1
\* status checks (every sleep takes at least one clock unit), fetch
MaxLog == MaxTimeout + 3

\* ------------------------------------------------------------------------
\* Program constants
\* ------------------------------------------------------------------------
None == -1
TIMEOUT_SECONDS == 300
SLEEP_INTERVAL_SECONDS == 5
DEFAULT_MAX_FAILURES == 1
HTTP_OK == 200

URL == "http://server/api/"
HEADERS == "content-type: application/json"
TOKEN == "yea"

STATUS_METHOD == <<"r","e","p","o","r","t",".","s","t","a","t","u","s",".","g","e","t">>
DATA_METHOD == <<"r","e","p","o","r","t",".","d","a","t","a",".","g","e","t">>
TASK_SUFFIX == <<".","t","a","s","k">>

\* ------------------------------------------------------------------------
\* Python helpers
\* ------------------------------------------------------------------------
EmptyDict == [k \in {} |-> None]

\* dict.get(key) with the default None
Get(d, k) == IF k \in DOMAIN d THEN d[k] ELSE None

\* truth value of a number or None
Truthy(v) == v # None /\ v # 0

\* a or b, for numbers and None
Or(a, b) == IF Truthy(a) THEN a ELSE b

\* the keyword arguments without some keys
Without(d, keys) == [k \in (DOMAIN d) \ keys |-> d[k]]

\* no deserializer in use
NoEngine == [pc |-> "none"]

VARIABLES
    routers,        \* the MethodProxy objects created so far, in creation order
    chainOf,        \* for each router, the attribute names that built it
    cfg,            \* the client's configuration dictionary
    handler,        \* class of the handler instance executing the call
    method,         \* the handler's bound method name
    kwargs,         \* keyword arguments of the call
    override,       \* the _deserializer argument of the call
    max_failures,   \* AsyncRequestHandler._max_failures
    num_failures,   \* AsyncRequestHandler._num_failures
    timeout,        \* local timeout of _internal_handle (seconds, then deadline)
    sleep_interval, \* local sleep_interval of _internal_handle
    executor,       \* worker pool running _internal_handle, "caller" if none
    future,         \* the handle returned by an asynchronous call
    pc,             \* position of the call
    clock,          \* time.time()
    delay,          \* time the request in flight has taken so far
    log,            \* request envelopes sent, with the outcome of each
    response,       \* the last HTTP response read
    outcome,        \* how the handler ended: a result or the error raised
    used,           \* deserializer resolved by __call__
    result,         \* value returned by __call__
    deser,          \* a deserializer, its input and what create_from made of it
    instances,      \* handler instances created by concurrent calls
    seqs            \* the poll sequences of concurrent calls

vars == <<routers, chainOf, cfg, handler, method, kwargs, override, max_failures,
          num_failures, timeout, sleep_interval, executor, future, pc, clock,
          delay, log, response, outcome, used, result, deser, instances, seqs>>

routerVars == <<routers, chainOf>>
callVars == <<cfg, handler, method, kwargs, override>>
respondVars == <<used, result>>
engineVars == <<deser>>
pairVars == <<instances, seqs>>

\* ------------------------------------------------------------------------
\* RequestHandler.handle: one round trip
\* ------------------------------------------------------------------------
\* the envelope built from the handler's method and the keyword arguments
Payload(self_method, kw) ==
    [method |-> IF "method" \in DOMAIN kw THEN kw["method"] ELSE self_method,
     params |-> (DOMAIN kw \ {"method"}) \cup {"token"}]

\* a bug that raises only when the status and the error field both say so
HandleOutcomeBoth(resp) ==
    IF resp.status_code # HTTP_OK /\ resp.error
    THEN "RemoteFailedError"
    ELSE resp.result

\* what handle does with the response: raise or return the result field
HandleOutcome(resp) ==
    IF resp.status_code # HTTP_OK \/ resp.error
    THEN "RemoteFailedError"
    ELSE resp.result

\* the responses the remote can give, by the shape of the result field
Responses(results) ==
    [status_code : {HTTP_OK}, error : {FALSE}, result : results]
    \cup {[status_code |-> 500, error |-> FALSE, result |-> "none"],
          [status_code |-> HTTP_OK, error |-> TRUE, result |-> "none"]}

\* the pools a sequence can be submitted to
Pools == {"caller_pool", "cfg_pool", "private_pool"}

\* the thread that runs the code of the handler
Thread == IF executor \in Pools THEN executor ELSE "caller"

\* a request goes out: the envelope is appended to the log
Send(kind, self_method, kw) ==
    /\ Len(log) < MaxLog
    /\ log' = Append(log, [kind |-> kind,
                           method |-> Payload(self_method, kw).method,
                           params |-> Payload(self_method, kw).params,
                           thread |-> Thread,
                           outcome |-> "inflight"])
    /\ delay' = 0

\* the outcome of the request in flight is recorded
Settle(resp) ==
    /\ response' = resp
    /\ log' = [log EXCEPT ![Len(log)].outcome = HandleOutcome(resp)]

\* ------------------------------------------------------------------------
\* AsyncRequestHandler
\* ------------------------------------------------------------------------
\* __init__: the tolerance configured for the handler
InitMaxFailures(configuration) ==
    Or(configuration.max_failures, DEFAULT_MAX_FAILURES)

\* keyword arguments that reach _internal_handle's **kwargs
TaskKwargs(kw) ==
    Without(kw, {"_timeout", "_sleep_interval", "_async", "_max_failures"})

\* a bug that prefers the configured pool to the one the caller passed
ChooseExecutorConfigFirst(kw, configuration) ==
    IF configuration.async_executor THEN "cfg_pool"
    ELSE IF Get(kw, "_async") = 2 THEN "caller_pool"
    ELSE "private_pool"

\* the pool that runs the sequence; _async is 1 for True and 2 for an
\* Executor instance
ChooseExecutor(kw, configuration) ==
    IF Get(kw, "_async") = 2 THEN "caller_pool"
    ELSE IF configuration.async_executor THEN "cfg_pool"
    ELSE "private_pool"

\* a bug that only looks at the per-call flag
RunsAsyncFlagOnly(kw, configuration) == Truthy(Get(kw, "_async"))

\* if _async or self.configuration.get('run_async')
RunsAsync(kw, configuration) ==
    Truthy(Get(kw, "_async")) \/ configuration.run_async

\* handle
Handle ==
    /\ pc = "handle"
    /\ handler = "AsyncRequestHandler"
    /\ max_failures' = IF Get(kwargs, "_max_failures") # None
                       THEN kwargs["_max_failures"] ELSE max_failures
    /\ IF RunsAsync(kwargs, cfg)
       THEN /\ executor' = ChooseExecutor(kwargs, cfg)
            /\ future' = "pending"
       ELSE /\ executor' = "caller"
            /\ future' = "none"
    /\ pc' = "submit"
    /\ UNCHANGED <<engineVars, pairVars, routerVars, callVars, respondVars, num_failures, timeout,
                   sleep_interval, clock, delay, log, response, outcome>>

\* the sequence ends: the result or the error is delivered
Finish(o) ==
    /\ outcome' = o
    /\ pc' = "done"
    /\ future' = IF future = "pending" THEN "done" ELSE future

\* _internal_handle, up to the submit request going out
SendSubmit ==
    /\ pc = "submit"
    /\ timeout' = Or(Get(kwargs, "_timeout"), Or(cfg.timeout, TIMEOUT_SECONDS))
    /\ sleep_interval' = Or(Get(kwargs, "_sleep_interval"),
                            Or(cfg.sleep_interval, SLEEP_INTERVAL_SECONDS))
    /\ Send("submit", method, TaskKwargs(kwargs))
    /\ pc' = "submit_wait"
    /\ UNCHANGED <<engineVars, pairVars, routerVars, callVars, respondVars, max_failures, num_failures,
                   executor, future, clock, response, outcome>>

\* time passes while a request is in flight
Tick ==
    /\ pc \in {"submit_wait", "status_wait", "fetch_wait"}
    /\ delay < MaxDelay
    /\ delay' = delay + 1
    /\ clock' = clock + 1
    /\ UNCHANGED <<engineVars, pairVars, routerVars, callVars, respondVars, max_failures, num_failures,
                   timeout, sleep_interval, executor, future, pc, log, response,
                   outcome>>

\* a bug that reads the token with .get and goes on without one
ReportTokenGet(o) == o

\* ['report_token'] on the submit result
ReportToken(o) == IF o = "empty" THEN "KeyError" ELSE o

\* the submit response: the token is read and the deadline is set
RecvSubmit ==
    /\ pc = "submit_wait"
    /\ \E resp \in Responses({"token", "empty"}) :
         /\ Settle(resp)
         /\ CASE HandleOutcome(resp) = "RemoteFailedError" ->
                   /\ Finish("RemoteFailedError")
                   /\ UNCHANGED timeout
              [] ReportToken(HandleOutcome(resp)) = "KeyError" ->
                   /\ Finish("KeyError")
                   /\ UNCHANGED timeout
              [] OTHER ->
                   /\ timeout' = clock + timeout
                   /\ pc' = "status"
                   /\ UNCHANGED <<outcome, future>>
    /\ UNCHANGED <<engineVars, pairVars, routerVars, callVars, respondVars, max_failures, num_failures,
                   sleep_interval, executor, clock, delay>>

\* _report_ready, the status request going out
SendStatus ==
    /\ pc = "status"
    /\ Send("status", method, [method |-> STATUS_METHOD, report_token |-> "token"])
    /\ pc' = "status_wait"
    /\ UNCHANGED <<engineVars, pairVars, routerVars, callVars, respondVars, max_failures, num_failures,
                   timeout, sleep_interval, executor, future, clock, response,
                   outcome>>

\* a bug that takes every status that was read for "ready"
StatusValueAny(o) == TRUE

\* response['status'] == 'ready'
StatusValue(o) == o = "ready"

\* a bug that forgets to reset the counter
KeepFailures(failures) == failures

\* self._num_failures = 0 after a status was read
ResetFailures(failures) == 0

\* a bug that compares with >= instead of >
ShouldReraiseEager(failures, tolerated) == failures >= tolerated

\* _should_reraise_status_get_error, on the counter already incremented
ShouldReraise(failures, tolerated) == failures > tolerated

\* _report_ready, from the status response on
RecvStatus ==
    /\ pc = "status_wait"
    /\ \E resp \in Responses({"ready", "running", "empty"}) :
         /\ Settle(resp)
         /\ IF HandleOutcome(resp) \in {"RemoteFailedError", "empty"}
            THEN /\ num_failures' = num_failures + 1
                 /\ IF ShouldReraise(num_failures + 1, max_failures)
                    THEN Finish("RemoteFailedError")
                    ELSE /\ pc' = "sleep"
                         /\ UNCHANGED <<outcome, future>>
            ELSE /\ num_failures' = ResetFailures(num_failures)
                 /\ pc' = IF StatusValue(HandleOutcome(resp)) THEN "fetch" ELSE "sleep"
                 /\ UNCHANGED <<outcome, future>>
    /\ UNCHANGED <<engineVars, pairVars, routerVars, callVars, respondVars, max_failures, timeout,
                   sleep_interval, executor, clock, delay>>

\* time.sleep(sleep_interval)
Sleep ==
    /\ pc = "sleep"
    /\ clock' = clock + sleep_interval
    /\ pc' = "check"
    /\ UNCHANGED <<engineVars, pairVars, routerVars, callVars, respondVars, max_failures, num_failures,
                   timeout, sleep_interval, executor, future, delay, log, response,
                   outcome>>

\* a bug that compares with >= instead of >
ExpiredEarly(now, deadline) == now >= deadline

\* time.time() > timeout
Expired(now, deadline) == now > deadline

\* the deadline test after the sleep
CheckDeadline ==
    /\ pc = "check"
    /\ IF Expired(clock, timeout)
       THEN Finish("RemoteTimeoutError")
       ELSE /\ pc' = "status"
            /\ UNCHANGED <<outcome, future>>
    /\ UNCHANGED <<engineVars, pairVars, routerVars, callVars, respondVars, max_failures, num_failures,
                   timeout, sleep_interval, executor, clock, delay, log, response>>

\* the data-fetch request going out
SendFetch ==
    /\ pc = "fetch"
    /\ Send("fetch", method, [method |-> DATA_METHOD, report_token |-> "token"])
    /\ pc' = "fetch_wait"
    /\ UNCHANGED <<engineVars, pairVars, routerVars, callVars, respondVars, max_failures, num_failures,
                   timeout, sleep_interval, executor, future, clock, response,
                   outcome>>

\* the data-fetch response is the result of the sequence
RecvFetch ==
    /\ pc = "fetch_wait"
    /\ \E resp \in Responses({"data"}) :
         /\ Settle(resp)
         /\ Finish(HandleOutcome(resp))
    /\ UNCHANGED <<engineVars, pairVars, routerVars, callVars, respondVars, max_failures, num_failures,
                   timeout, sleep_interval, executor, clock, delay>>

\* ------------------------------------------------------------------------
\* Method names
\* ------------------------------------------------------------------------
\* str.endswith
EndsWith(str, suffix) ==
    /\ Len(str) >= Len(suffix)
    /\ SubSeq(str, Len(str) - Len(suffix) + 1, Len(str)) = suffix

\* a bug that leaves the dot out of the joined name
NewMethodNoDot(parent_method, inner_item) == parent_method \o inner_item

\* self._method + "." + inner_item
NewMethod(parent_method, inner_item) == parent_method \o <<".">> \o inner_item

\* attribute names used in the model
Names == {<<"a">>, <<"t","a","s","k">>, <<"x","t","a","s","k">>}

\* ------------------------------------------------------------------------
\* RpcClient.__getattr__ and MethodProxy.__getattr__
\* ------------------------------------------------------------------------
MethodProxy(url, headers, token, method_name, configuration) ==
    [method |-> method_name, url |-> url, headers |-> headers, token |-> token,
     configuration |-> configuration]

ClientGetAttr ==
    /\ Len(routers) < MaxRouters
    /\ \E item \in Names :
         /\ routers' = Append(routers, MethodProxy(URL, HEADERS, TOKEN, item, cfg))
         /\ chainOf' = Append(chainOf, <<item>>)
    /\ UNCHANGED <<engineVars, pairVars, callVars, respondVars, max_failures, num_failures, timeout,
                   sleep_interval, executor, future, pc, clock, delay, log,
                   response, outcome>>

ProxyGetAttr ==
    /\ Len(routers) < MaxRouters
    /\ \E r \in DOMAIN routers, inner_item \in Names :
         /\ routers' = Append(routers,
                MethodProxy(routers[r].url, routers[r].headers, routers[r].token,
                            NewMethod(routers[r].method, inner_item),
                            routers[r].configuration))
         /\ chainOf' = Append(chainOf, Append(chainOf[r], inner_item))
    /\ UNCHANGED <<engineVars, pairVars, callVars, respondVars, max_failures, num_failures, timeout,
                   sleep_interval, executor, future, pc, clock, delay, log,
                   response, outcome>>

\* ------------------------------------------------------------------------
\* MethodProxy._get_handler_instance
\* ------------------------------------------------------------------------
\* a bug that matches the suffix without its dot
TaskPredicateNoDot(url, m, kw) == EndsWith(m, <<"t","a","s","k">>)

\* lambda url, method, **kwargs: method.endswith('.task')
TaskPredicate(url, m, kw) == EndsWith(m, TASK_SUFFIX)

\* the predicates of the model's handler tables
CanHandle(can_handle, url, m, kw) ==
    CASE can_handle = "endswith_task" -> TaskPredicate(url, m, kw)
      [] can_handle = "always" -> TRUE
      [] can_handle = "never" -> FALSE
      [] can_handle = "has_x" -> "x" \in DOMAIN kw

default_handlers ==
    << <<"endswith_task", "AsyncRequestHandler">>, <<"always", "RequestHandler">> >>

\* (configuration and configuration.get('handlers')) or default_handlers
Handlers(configuration) ==
    IF configuration.handlers.present /\ configuration.handlers.table # <<>>
    THEN configuration.handlers.table
    ELSE default_handlers

RECURSIVE LastMatch(_, _, _, _, _)
\* a bug that goes on after a match and keeps the last one
LastMatch(handlers, i, url, m, kw) ==
    IF i < 1 THEN "NoHandlerError"
    ELSE IF CanHandle(handlers[i][1], url, m, kw) THEN handlers[i][2]
    ELSE LastMatch(handlers, i - 1, url, m, kw)

SelectLast(handlers, url, m, kw) == LastMatch(handlers, Len(handlers), url, m, kw)

RECURSIVE Walk(_, _, _, _, _)
\* the for loop over the table, from entry i on
Walk(handlers, i, url, m, kw) ==
    IF i > Len(handlers) THEN "NoHandlerError"
    ELSE IF CanHandle(handlers[i][1], url, m, kw) THEN handlers[i][2]
    ELSE Walk(handlers, i + 1, url, m, kw)

\* class of the handler that the loop instantiates, or the error of its else
SelectHandler(handlers, url, m, kw) == Walk(handlers, 1, url, m, kw)

\* ------------------------------------------------------------------------
\* MethodProxy._get_deserializer
\* ------------------------------------------------------------------------
\* a configured 'deserializers' value: what it is and what it maps
NoDeserializers ==
    [present |-> FALSE, create_from |-> FALSE, dict |-> FALSE, callable |-> FALSE,
     keys |-> {}]

\* a bug that looks for the mapping before the create_from capability
GetDeserializerDictFirst(deserializer, configuration, m) ==
    IF deserializer # "None" THEN deserializer
    ELSE IF configuration.deserializers.present
    THEN LET d == configuration.deserializers
         IN  IF d.dict THEN (IF m \in d.keys THEN "D_entry" ELSE "None")
             ELSE IF d.create_from THEN "D_cfg"
             ELSE IF d.callable THEN (IF m \in d.keys THEN "D_fn" ELSE "None")
             ELSE "None"
    ELSE "None"

GetDeserializer(deserializer, configuration, m) ==
    IF deserializer # "None" THEN deserializer
    ELSE IF configuration.deserializers.present
    THEN LET d == configuration.deserializers
         IN  IF d.create_from THEN "D_cfg"
             ELSE IF d.dict THEN (IF m \in d.keys THEN "D_entry" ELSE "None")
             ELSE IF d.callable THEN (IF m \in d.keys THEN "D_fn" ELSE "None")
             ELSE "None"
    ELSE "None"

\* ------------------------------------------------------------------------
\* MethodProxy.__call__
\* ------------------------------------------------------------------------
\* keyword arguments that are also passed by position to the predicate
\* (url, method) or to the handler's __init__ (method, url, headers, token,
\* configuration): with one of them the call raises TypeError
Collides(kw) ==
    DOMAIN kw \cap {"method", "url", "headers", "token", "configuration"} # {}

\* the handler is selected and instantiated
Call ==
    /\ pc = "call"
    /\ \E r \in DOMAIN routers :
         LET self == routers[r]
             cls == SelectHandler(Handlers(self.configuration), self.url,
                                  self.method, kwargs)
         IN  /\ method' = self.method
             /\ IF Collides(kwargs)
                THEN /\ outcome' = "TypeError"
                     /\ pc' = "raised"
                     /\ UNCHANGED <<handler, max_failures, num_failures>>
                ELSE IF cls = "NoHandlerError"
                THEN /\ outcome' = "NoHandlerError"
                     /\ pc' = "raised"
                     /\ UNCHANGED <<handler, max_failures, num_failures>>
                ELSE /\ handler' = cls
                     /\ pc' = "handle"
                     /\ max_failures' = IF cls = "AsyncRequestHandler"
                                        THEN InitMaxFailures(self.configuration)
                                        ELSE max_failures
                     /\ num_failures' = 0
                     /\ UNCHANGED outcome
    /\ UNCHANGED <<engineVars, pairVars, routerVars, cfg, kwargs, override, respondVars, timeout,
                   sleep_interval, executor, future, clock, delay, log, response>>

\* RequestHandler.handle, the request going out
SyncSend ==
    /\ pc = "handle"
    /\ handler = "RequestHandler"
    /\ Send("call", method, kwargs)
    /\ pc' = "sync_wait"
    /\ UNCHANGED <<engineVars, pairVars, routerVars, callVars, respondVars, max_failures, num_failures,
                   timeout, sleep_interval, executor, future, clock, response,
                   outcome>>

\* RequestHandler.handle, from the response on
SyncRecv ==
    /\ pc = "sync_wait"
    /\ \E resp \in Responses({"data"}) :
         /\ Settle(resp)
         /\ Finish(HandleOutcome(resp))
    /\ UNCHANGED <<engineVars, pairVars, routerVars, callVars, respondVars, max_failures, num_failures,
                   timeout, sleep_interval, executor, clock, delay>>

\* __call__ when handle returned the Future of a submitted sequence
AsyncRespond ==
    /\ future # "none"
    /\ result.raw = "none"
    /\ used' = GetDeserializer(override, cfg, method)
    /\ result' = [create_from |-> used', raw |-> "future"]
    /\ UNCHANGED <<engineVars, pairVars, routerVars, callVars, max_failures, num_failures, timeout,
                   sleep_interval, executor, future, pc, clock, delay, log, response,
                   outcome>>

IsError(o) ==
    o \in {"RemoteFailedError", "RemoteTimeoutError", "KeyError", "NoHandlerError",
           "TypeError"}

\* the response of a blocking handler comes back to __call__
Respond ==
    /\ pc = "done"
    /\ future = "none"
    /\ IF IsError(outcome)
       THEN /\ pc' = "raised"
            /\ UNCHANGED respondVars
       ELSE /\ used' = GetDeserializer(override, cfg, method)
            /\ result' = [create_from |-> used', raw |-> outcome]
            /\ pc' = "returned"
    /\ UNCHANGED <<engineVars, pairVars, routerVars, callVars, max_failures, num_failures, timeout,
                   sleep_interval, executor, future, clock, delay, log, response,
                   outcome>>

\* ------------------------------------------------------------------------
\* The poll sequence of one AsyncRequestHandler
\* ------------------------------------------------------------------------
TaskMethod == <<"a">> \o TASK_SUFFIX

OptKw(key, values) == {EmptyDict} \cup {key :> v : v \in values}

\* configurations and call arguments whose effective values stay in the bounds
PollConfigs ==
    [handlers : {[present |-> FALSE, table |-> <<>>]},
     deserializers : {NoDeserializers},
     timeout : {MaxTimeout},
     sleep_interval : {1},
     max_failures : {None, MaxFailures},
     run_async : {FALSE},
     async_executor : {FALSE}]

PollKwargs ==
    {t @@ s @@ f @@ a :
        t \in OptKw("_timeout", 1..(MaxTimeout - 1)),
        s \in OptKw("_sleep_interval", 2..MaxSleep),
        f \in OptKw("_max_failures", {0}),
        a \in OptKw("_async", {1})}

Init ==
    /\ routers = <<>>
    /\ chainOf = <<>>
    /\ cfg \in PollConfigs
    /\ kwargs \in PollKwargs
    /\ handler = "AsyncRequestHandler"
    /\ method = TaskMethod
    /\ override = "None"
    /\ max_failures = InitMaxFailures(cfg)
    /\ num_failures = 0
    /\ timeout = None
    /\ sleep_interval = None
    /\ executor = "none"
    /\ future = "none"
    /\ pc = "handle"
    /\ clock = 0
    /\ delay = 0
    /\ log = <<>>
    /\ response = [status_code |-> HTTP_OK, error |-> FALSE, result |-> "none"]
    /\ outcome = "none"
    /\ used = "None"
    /\ result = [create_from |-> "None", raw |-> "none"]
    /\ deser = NoEngine
    /\ instances = <<>>
    /\ seqs = <<>>

Next ==
    \/ Handle
    \/ SendSubmit
    \/ Tick
    \/ RecvSubmit
    \/ SendStatus
    \/ RecvStatus
    \/ Sleep
    \/ CheckDeadline
    \/ SendFetch
    \/ RecvFetch

Spec == Init /\ [][Next]_vars

\* the knobs of a poll sequence, each unset, zero or positive, per call and
\* in the client configuration
KnobConfigs ==
    [handlers : {[present |-> FALSE, table |-> <<>>]},
     deserializers : {NoDeserializers},
     timeout : {None, 0, 2},
     sleep_interval : {None, 0},
     max_failures : {None, 0, 1},
     run_async : {FALSE},
     async_executor : {FALSE}]

KnobKwargs ==
    {t @@ s @@ f :
        t \in OptKw("_timeout", {0}),
        s \in OptKw("_sleep_interval", {0, 2}),
        f \in OptKw("_max_failures", {0})}

KnobInit ==
    /\ cfg \in KnobConfigs
    /\ kwargs \in KnobKwargs
    /\ routers = <<>>
    /\ chainOf = <<>>
    /\ handler = "AsyncRequestHandler"
    /\ method = TaskMethod
    /\ override = "None"
    /\ max_failures = InitMaxFailures(cfg)
    /\ num_failures = 0
    /\ timeout = None
    /\ sleep_interval = None
    /\ executor = "none"
    /\ future = "none"
    /\ pc = "handle"
    /\ clock = 0
    /\ delay = 0
    /\ log = <<>>
    /\ response = [status_code |-> HTTP_OK, error |-> FALSE, result |-> "none"]
    /\ outcome = "none"
    /\ used = "None"
    /\ result = [create_from |-> "None", raw |-> "none"]
    /\ deser = NoEngine
    /\ instances = <<>>
    /\ seqs = <<>>

KnobSpec == KnobInit /\ [][Next]_vars

\* synchronous and asynchronous calls of a task method
AsyncConfigs ==
    [handlers : {[present |-> FALSE, table |-> <<>>]},
     deserializers : {NoDeserializers},
     timeout : {1},
     sleep_interval : {1},
     max_failures : {None},
     run_async : BOOLEAN,
     async_executor : BOOLEAN]

AsyncKwargs == OptKw("_async", {0, 1, 2})

AsyncInit ==
    /\ cfg \in AsyncConfigs
    /\ kwargs \in AsyncKwargs
    /\ routers = <<>>
    /\ chainOf = <<>>
    /\ handler = "AsyncRequestHandler"
    /\ method = TaskMethod
    /\ override = "None"
    /\ max_failures = InitMaxFailures(cfg)
    /\ num_failures = 0
    /\ timeout = None
    /\ sleep_interval = None
    /\ executor = "none"
    /\ future = "none"
    /\ pc = "handle"
    /\ clock = 0
    /\ delay = 0
    /\ log = <<>>
    /\ response = [status_code |-> HTTP_OK, error |-> FALSE, result |-> "none"]
    /\ outcome = "none"
    /\ used = "None"
    /\ result = [create_from |-> "None", raw |-> "none"]
    /\ deser = NoEngine
    /\ instances = <<>>
    /\ seqs = <<>>

AsyncNext ==
    \/ Next
    \/ Respond
    \/ AsyncRespond

AsyncSpec == AsyncInit /\ [][AsyncNext]_vars

\* the same calls with a deserializer in the configuration or in the call
FeedConfigs ==
    {[c EXCEPT !.deserializers = d] :
        c \in AsyncConfigs,
        d \in {NoDeserializers,
               [present |-> TRUE, create_from |-> TRUE, dict |-> FALSE,
                callable |-> FALSE, keys |-> {}]}}

FeedInit ==
    /\ cfg \in FeedConfigs
    /\ kwargs \in AsyncKwargs
    /\ override \in {"None", "D_call"}
    /\ routers = <<>>
    /\ chainOf = <<>>
    /\ handler = "AsyncRequestHandler"
    /\ method = TaskMethod
    /\ max_failures = InitMaxFailures(cfg)
    /\ num_failures = 0
    /\ timeout = None
    /\ sleep_interval = None
    /\ executor = "none"
    /\ future = "none"
    /\ pc = "handle"
    /\ clock = 0
    /\ delay = 0
    /\ log = <<>>
    /\ response = [status_code |-> HTTP_OK, error |-> FALSE, result |-> "none"]
    /\ outcome = "none"
    /\ used = "None"
    /\ result = [create_from |-> "None", raw |-> "none"]
    /\ deser = NoEngine
    /\ instances = <<>>
    /\ seqs = <<>>

FeedSpec == FeedInit /\ [][AsyncNext]_vars

\* ------------------------------------------------------------------------
\* Routers built by attribute chains from one client
\* ------------------------------------------------------------------------
Idle ==
    /\ handler = "none"
    /\ method = <<>>
    /\ max_failures = None
    /\ num_failures = 0
    /\ timeout = None
    /\ sleep_interval = None
    /\ executor = "none"
    /\ future = "none"
    /\ clock = 0
    /\ delay = 0
    /\ log = <<>>
    /\ response = [status_code |-> HTTP_OK, error |-> FALSE, result |-> "none"]
    /\ outcome = "none"
    /\ used = "None"
    /\ result = [create_from |-> "None", raw |-> "none"]
    /\ instances = <<>>
    /\ seqs = <<>>

PlainConfig ==
    [handlers |-> [present |-> FALSE, table |-> <<>>],
     deserializers |-> NoDeserializers,
     timeout |-> 1, sleep_interval |-> 1, max_failures |-> None,
     run_async |-> FALSE, async_executor |-> FALSE]

ChainInit ==
    /\ routers = <<>>
    /\ chainOf = <<>>
    /\ cfg = PlainConfig
    /\ kwargs = EmptyDict
    /\ override = "None"
    /\ pc = "idle"
    /\ Idle
    /\ deser = NoEngine

ChainNext ==
    \/ ClientGetAttr
    \/ ProxyGetAttr

ChainSpec == ChainInit /\ [][ChainNext]_vars

\* ------------------------------------------------------------------------
\* One call through a router
\* ------------------------------------------------------------------------
HandlerEntries == {"always", "never", "has_x"} \X {"AsyncRequestHandler", "RequestHandler"}

RECURSIVE Tables(_)
\* the handler tables of at most n entries
Tables(n) ==
    IF n = 0 THEN {<<>>}
    ELSE LET shorter == Tables(n - 1)
         IN  shorter \cup {Append(t, e) : t \in shorter, e \in HandlerEntries}

DeserializerConfigs ==
    {NoDeserializers} \cup
    {d \in [present : {TRUE}, create_from : BOOLEAN, dict : BOOLEAN,
            callable : BOOLEAN,
            keys : {{<<"a">> \o TASK_SUFFIX}, {<<"t","a","s","k">>}}] :
        ~(d.create_from /\ d.dict /\ d.callable)}

DispatchConfigs ==
    [handlers : {[present |-> FALSE, table |-> <<>>]}
                \cup [present : {TRUE}, table : Tables(MaxTable)],
     deserializers : DeserializerConfigs,
     timeout : {1}, sleep_interval : {1}, max_failures : {None},
     run_async : {FALSE}, async_executor : {FALSE}]

\* the routers a call is made on, by the attribute chain that built them
CallChains ==
    {<<<<"a">>>>, <<<<"t","a","s","k">>>>, <<<<"a">>, <<"t","a","s","k">>>>,
     <<<<"a">>, <<"x","t","a","s","k">>>>}

RECURSIVE Join(_)
\* the names of a chain joined with dots
Join(chain) ==
    IF Len(chain) = 1 THEN chain[1]
    ELSE Join(SubSeq(chain, 1, Len(chain) - 1)) \o <<".">> \o chain[Len(chain)]

DispatchInit ==
    /\ cfg \in DispatchConfigs
    /\ \E chain \in CallChains :
         /\ routers = <<MethodProxy(URL, HEADERS, TOKEN, Join(chain), cfg)>>
         /\ chainOf = <<chain>>
    /\ kwargs \in OptKw("x", {1})
    /\ override \in {"None", "D_call"}
    /\ pc = "call"
    /\ Idle
    /\ deser = NoEngine

DispatchNext ==
    \/ Call
    \/ SyncSend
    \/ SyncRecv
    \/ Handle
    \/ SendSubmit
    \/ RecvSubmit
    \/ SendStatus
    \/ RecvStatus
    \/ Sleep
    \/ CheckDeadline
    \/ SendFetch
    \/ RecvFetch
    \/ Respond

DispatchSpec == DispatchInit /\ [][DispatchNext]_vars

\* ------------------------------------------------------------------------
\* One call with per-call reserved parameters
\* ------------------------------------------------------------------------
ParamKwargs ==
    {t @@ s @@ f @@ a @@ m @@ x :
        t \in OptKw("_timeout", {1}),
        s \in OptKw("_sleep_interval", {1}),
        f \in OptKw("_max_failures", {0}),
        a \in OptKw("_async", {0}),
        m \in OptKw("method", {<<"b">>}),
        x \in OptKw("x", {1})}

ParamInit ==
    /\ cfg = PlainConfig
    /\ \E chain \in {<<<<"a">>>>, <<<<"a">>, <<"t","a","s","k">>>>} :
         /\ routers = <<MethodProxy(URL, HEADERS, TOKEN, Join(chain), cfg)>>
         /\ chainOf = <<chain>>
    /\ kwargs \in ParamKwargs
    /\ override \in {"None", "D_call"}
    /\ pc = "call"
    /\ Idle
    /\ deser = NoEngine

ParamSpec == ParamInit /\ [][DispatchNext]_vars

\* ------------------------------------------------------------------------
\* DictDeserializer
\* ------------------------------------------------------------------------
\* raw dictionaries: each key that is present carries its own value
RawKeys == {"a1", "a2", "a3", "arg2"}
RawValue == [k \in RawKeys |-> CASE k = "a1" -> 1 [] k = "a2" -> 3
                                 [] k = "a3" -> 5 [] k = "arg2" -> 7]
RawDict(keys) == [k \in keys |-> RawValue[k]]

\* mapping rules: an int, a str, or lambda k, v: ('arg2', v * 2)
IntRule(i) == [type |-> "int", index |-> i, keyword |-> "None"]
StrRule(kw) == [type |-> "str", index |-> None, keyword |-> kw]
FnRule == [type |-> "fn", index |-> None, keyword |-> "arg2"]
Transform(key, value) == [keyword |-> "arg2", value |-> value * 2]

\* target classes: Thing(arg1, arg2), Thing3(arg1, arg2, arg3) and
\* KwThing(arg1, arg2, **kwargs), whose __init__ does kwargs.pop('key1')
Thing == [params |-> <<"arg1", "arg2">>, varkw |-> FALSE, pops |-> {}]
Thing3 == [params |-> <<"arg1", "arg2", "arg3">>, varkw |-> FALSE, pops |-> {}]
KwThing == [params |-> <<"arg1", "arg2">>, varkw |-> TRUE, pops |-> {"key1"}]

\* target_class(*arguments, **keywords): the error Python raises, or the
\* attributes of the object
Construct(target, arguments, keywords) ==
    LET n == Len(target.params)
        positional == {target.params[i] : i \in 1..Len(arguments) \cap 1..n}
        names == {target.params[i] : i \in 1..n}
    IN  IF \/ Len(arguments) > n
           \/ positional \cap DOMAIN keywords # {}
           \/ (~target.varkw /\ ~(DOMAIN keywords \subseteq names))
           \/ ~(names \subseteq positional \cup DOMAIN keywords)
        THEN [error |-> "TypeError", object |-> EmptyDict]
        ELSE IF ~(target.pops \subseteq DOMAIN keywords)
        THEN [error |-> "KeyError", object |-> EmptyDict]
        ELSE [error |-> "none",
              object |-> [a \in names |->
                            IF a \in positional
                            THEN arguments[CHOOSE i \in 1..n : target.params[i] = a]
                            ELSE keywords[a]]]

\* list.insert(index, value)
ListInsert(list, index, value) ==
    IF index >= Len(list) THEN Append(list, value)
    ELSE SubSeq(list, 1, index) \o <<value>> \o SubSeq(list, index + 1, Len(list))

\* _map_value
MapValue(rules, key, raw) ==
    LET rule == rules[key]
    IN  IF rule.type = "fn"
        THEN [index |-> None, keyword |-> Transform(key, raw[key]).keyword,
              value |-> Transform(key, raw[key]).value]
        ELSE IF rule.type = "str"
        THEN [index |-> None, keyword |-> rule.keyword, value |-> raw[key]]
        ELSE [index |-> rule.index, keyword |-> "None", value |-> raw[key]]

\* a bug that fails on unmapped keys under TO_KWARGS instead of FAIL
HandleUnmappedWrongPolicy(policy, rules_set, raw_set, raw_data) ==
    IF policy = "IGNORE" THEN [error |-> FALSE, unmapped |-> EmptyDict]
    ELSE IF policy = "TO_KWARGS" /\ raw_set \ rules_set # {}
    THEN [error |-> TRUE, unmapped |-> EmptyDict]
    ELSE [error |-> FALSE, unmapped |-> [k \in raw_set \ rules_set |-> raw_data[k]]]

\* _handle_unmapped_values
HandleUnmapped(policy, rules_set, raw_set, raw_data) ==
    IF policy = "IGNORE" THEN [error |-> FALSE, unmapped |-> EmptyDict]
    ELSE IF policy = "FAIL" /\ Cardinality(raw_set \ rules_set) > 0
    THEN [error |-> TRUE, unmapped |-> EmptyDict]
    ELSE [error |-> FALSE, unmapped |-> [k \in raw_set \ rules_set |-> raw_data[k]]]

RECURSIVE MapLoop(_, _, _, _, _)
\* the for loop of _map_arguments over the keys in the order the set gives them
MapLoop(rules, raw, order, arguments, keywords) ==
    IF order = <<>> THEN [arguments |-> arguments, keywords |-> keywords]
    ELSE LET mv == MapValue(rules, Head(order), raw)
         IN  IF mv.index # None
             THEN MapLoop(rules, raw, Tail(order),
                          ListInsert(arguments, mv.index, mv.value), keywords)
             ELSE MapLoop(rules, raw, Tail(order), arguments,
                          (mv.keyword :> mv.value) @@ keywords)

\* a bug that keeps the value already there
DictUpdateKeep(d, other) == d @@ other

\* dict.update: the values of other replace those under the same key
DictUpdate(d, other) == other @@ d

\* a bug that drops the unmapped values instead of merging them
MergeUnmappedDropped(keywords, unmapped) == keywords

\* keywords.update(unmapped)
MergeUnmapped(keywords, unmapped) == DictUpdate(keywords, unmapped)

\* _map_arguments; order is the iteration order of the key intersection
MapArguments(rules, policy, raw, order) ==
    LET unm == HandleUnmapped(policy, DOMAIN rules, DOMAIN raw, raw)
        mapped == MapLoop(rules, raw, order, <<>>, EmptyDict)
    IN  IF unm.error
        THEN [error |-> TRUE, arguments |-> <<>>, keywords |-> EmptyDict]
        ELSE [error |-> FALSE, arguments |-> mapped.arguments,
              keywords |-> MergeUnmapped(mapped.keywords, unm.unmapped)]

\* the exceptions that create_from catches around the constructor call
Caught == {"AttributeError", "TypeError"}

\* DictDeserializer.create_from: what it returns or raises, how often it
\* called the constructor and with what
CreateFrom(target, rules, policy, input, order) ==
    IF ~input.isdict
    THEN [error |-> "DeserializerError", cause |-> "none", calls |-> 0,
          arguments |-> <<>>, keywords |-> EmptyDict, object |-> EmptyDict]
    ELSE LET ma == MapArguments(rules, policy, input.data, order)
             made == Construct(target, ma.arguments, ma.keywords)
         IN  IF ma.error
             THEN [error |-> "DeserializerError", cause |-> "none", calls |-> 0,
                   arguments |-> <<>>, keywords |-> EmptyDict, object |-> EmptyDict]
             ELSE [error |-> IF made.error \in Caught THEN "DeserializerError"
                             ELSE made.error,
                   cause |-> made.error, calls |-> 1,
                   arguments |-> ma.arguments, keywords |-> ma.keywords,
                   object |-> made.object]

\* the orders in which a set can be iterated
Orders(S) ==
    {o \in [1..Cardinality(S) -> S] : \A i, j \in 1..Cardinality(S) : i # j => o[i] # o[j]}

\* the iteration orders of raw_keys_set.intersection(rules_keys_set)
VisitOrders(rules, input) ==
    IF input.isdict THEN Orders(DOMAIN input.data \cap DOMAIN rules) ELSE {<<>>}

\* create_from of a DictDeserializer
DictCreateFrom ==
    /\ deser.pc = "new"
    /\ deser.kind = "DictDeserializer"
    /\ \E order \in VisitOrders(deser.rules, deser.input) :
         LET r == CreateFrom(deser.target, deser.rules, deser.policy, deser.input, order)
         IN  deser' = [deser EXCEPT !.pc = IF r.error = "none" THEN "returned" ELSE "raised",
                                    !.order = order, !.out = r, !.calls = r.calls]
    /\ UNCHANGED <<pairVars, routerVars, callVars, respondVars, max_failures,
                   num_failures, timeout, sleep_interval, executor, future, pc,
                   clock, delay, log, response, outcome>>

\* ------------------------------------------------------------------------
\* IterableDictDeserializer
\* ------------------------------------------------------------------------
\* create_from: map(super().create_from, raw), nothing is constructed yet
IterCreateFrom ==
    /\ deser.pc = "new"
    /\ deser.kind = "IterableDictDeserializer"
    /\ deser' = [deser EXCEPT !.pc = "iterating"]
    /\ UNCHANGED <<pairVars, routerVars, callVars, respondVars, max_failures,
                   num_failures, timeout, sleep_interval, executor, future, pc,
                   clock, delay, log, response, outcome>>

\* a bug that hands the first item to every call
NextItemFirst(input, pos) == input[1]

\* the item that the map object hands to create_from on its next step
NextItem(input, pos) == input[pos + 1]

\* next() on the map object: the next item is deserialized, or StopIteration
IterNext ==
    /\ deser.pc \in {"iterating", "exhausted"}
    /\ deser.stops < 2
    /\ IF deser.pos < Len(deser.input)
       THEN \E order \in VisitOrders(deser.rules, NextItem(deser.input, deser.pos)) :
              LET r == CreateFrom(deser.target, deser.rules, deser.policy,
                                  NextItem(deser.input, deser.pos), order)
              IN  deser' = [deser EXCEPT !.pos = deser.pos + 1,
                                         !.calls = deser.calls + r.calls,
                                         !.orders = Append(deser.orders, order),
                                         !.yielded = Append(deser.yielded, r)]
       ELSE deser' = [deser EXCEPT !.pc = "exhausted", !.stops = deser.stops + 1]
    /\ UNCHANGED <<pairVars, routerVars, callVars, respondVars, max_failures,
                   num_failures, timeout, sleep_interval, executor, future, pc,
                   clock, delay, log, response, outcome>>

\* ------------------------------------------------------------------------
\* Deserializers at work
\* ------------------------------------------------------------------------
RuleChoices ==
    {IntRule(i) : i \in 0..MaxIndex}
    \cup {StrRule("arg1"), StrRule("arg2"), StrRule("key1"), FnRule}

\* rule tables over the keys a1, a2, a3 with distinct positional indexes
RuleTables ==
    UNION {{t \in [S -> RuleChoices] :
              \A j, k \in S : (j # k /\ t[j].type = "int" /\ t[k].type = "int")
                                 => t[j].index # t[k].index} :
           S \in SUBSET {"a1", "a2", "a3"}}

Policies == {"IGNORE", "TO_KWARGS", "FAIL"}

RawInputs ==
    {[isdict |-> TRUE, data |-> RawDict(S)] : S \in SUBSET RawKeys}
    \cup {[isdict |-> FALSE, data |-> EmptyDict]}

NoOutput ==
    [error |-> "none", cause |-> "none", calls |-> 0, arguments |-> <<>>,
     keywords |-> EmptyDict, object |-> EmptyDict]

DictEngines ==
    [kind : {"DictDeserializer"}, target : {Thing, Thing3, KwThing},
     rules : RuleTables, policy : Policies, input : RawInputs,
     pc : {"new"}, order : {<<>>}, out : {NoOutput}, calls : {0}]

\* the tables of the iterable tests
IterRuleTables ==
    {[k \in {"a1", "a2"} |-> IF k = "a1" THEN IntRule(0) ELSE IntRule(1)],
     [k \in {"a1", "a2"} |-> IF k = "a1" THEN StrRule("arg1") ELSE FnRule]}

IterItems ==
    {[isdict |-> TRUE, data |-> RawDict(S)] :
        S \in {{"a1", "a2"}, {"a1"}, {"a1", "a2", "a3"}}}

RECURSIVE ItemLists(_)
ItemLists(n) ==
    IF n = 0 THEN {<<>>}
    ELSE LET shorter == ItemLists(n - 1)
         IN  shorter \cup {Append(l, i) : l \in shorter, i \in IterItems}

IterEngines ==
    [kind : {"IterableDictDeserializer"}, target : {Thing},
     rules : IterRuleTables, policy : Policies, input : ItemLists(MaxItems),
     pc : {"new"}, pos : {0}, calls : {0}, stops : {0}, orders : {<<>>},
     yielded : {<<>>}]

EngineInit ==
    /\ deser \in DictEngines \cup IterEngines
    /\ routers = <<>>
    /\ chainOf = <<>>
    /\ cfg = PlainConfig
    /\ kwargs = EmptyDict
    /\ override = "None"
    /\ pc = "idle"
    /\ Idle

EngineNext ==
    \/ DictCreateFrom
    \/ IterCreateFrom
    \/ IterNext

EngineSpec == EngineInit /\ [][EngineNext]_vars

\* ------------------------------------------------------------------------
\* Two calls of one MethodProxy whose poll sequences run concurrently
\* ------------------------------------------------------------------------
Sequences == {1, 2}

\* a bug that keeps one handler per proxy and hands it to every call
NewHandlerCached(heap, tolerated) ==
    IF heap = <<>>
    THEN [heap |-> <<[max_failures |-> tolerated, num_failures |-> 0]>>, self |-> 1]
    ELSE [heap |-> [heap EXCEPT ![1].max_failures = tolerated], self |-> 1]

\* _get_handler_instance: handler(...) constructs a new AsyncRequestHandler,
\* whose _max_failures is then set by handle
NewHandler(heap, tolerated) ==
    [heap |-> Append(heap, [max_failures |-> tolerated, num_failures |-> 0]),
     self |-> Len(heap) + 1]

\* the tolerance after __init__ and the assignment in handle
Tolerated(configuration, percall) ==
    IF percall # None THEN percall ELSE InitMaxFailures(configuration)

PairDone(i) == seqs[i].pc \in {"returned", "raised"}

\* __call__ up to the hand-over to _internal_handle
PairCall(i) ==
    /\ seqs[i].pc = "idle"
    /\ LET made == NewHandler(instances, Tolerated(cfg, seqs[i].percall))
       IN  /\ instances' = made.heap
           /\ seqs' = [seqs EXCEPT ![i].self = made.self, ![i].pc = "submit"]
    /\ UNCHANGED <<engineVars, routerVars, callVars, respondVars, max_failures,
                   num_failures, timeout, sleep_interval, executor, future, pc,
                   clock, delay, log, response, outcome>>

\* the submit request and its response: token and deadline are locals
PairSubmit(i) ==
    /\ seqs[i].pc = "submit"
    /\ \E resp \in Responses({"t1", "t2"}) :
         IF HandleOutcome(resp) = "RemoteFailedError"
         THEN seqs' = [seqs EXCEPT ![i].pc = "raised", ![i].outcome = "RemoteFailedError"]
         ELSE seqs' = [seqs EXCEPT ![i].pc = "status",
                                   ![i].token = HandleOutcome(resp),
                                   ![i].deadline =
                                       clock + Or(None, Or(cfg.timeout, TIMEOUT_SECONDS))]
    /\ UNCHANGED <<engineVars, instances, routerVars, callVars, respondVars, max_failures,
                   num_failures, timeout, sleep_interval, executor, future, pc,
                   clock, delay, log, response, outcome>>

\* _report_ready on the sequence's own handler
PairStatus(i) ==
    /\ seqs[i].pc = "status"
    /\ LET me == instances[seqs[i].self]
       IN  \E resp \in Responses({"ready", "running", "empty"}) :
             IF HandleOutcome(resp) \in {"RemoteFailedError", "empty"}
             THEN /\ instances' = [instances EXCEPT
                                     ![seqs[i].self].num_failures = me.num_failures + 1]
                  /\ IF ShouldReraise(me.num_failures + 1, me.max_failures)
                     THEN seqs' = [seqs EXCEPT ![i].pc = "raised",
                                               ![i].asked = seqs[i].token,
                                               ![i].run = seqs[i].run + 1,
                                               ![i].outcome = "RemoteFailedError"]
                     ELSE seqs' = [seqs EXCEPT ![i].pc = "sleep",
                                               ![i].asked = seqs[i].token,
                                               ![i].run = seqs[i].run + 1]
             ELSE /\ instances' = [instances EXCEPT
                                     ![seqs[i].self].num_failures =
                                         ResetFailures(me.num_failures)]
                  /\ seqs' = [seqs EXCEPT
                                ![i].pc = IF StatusValue(HandleOutcome(resp))
                                          THEN "fetch" ELSE "sleep",
                                ![i].asked = seqs[i].token,
                                ![i].run = 0]
    /\ UNCHANGED <<engineVars, routerVars, callVars, respondVars, max_failures,
                   num_failures, timeout, sleep_interval, executor, future, pc,
                   clock, delay, log, response, outcome>>

\* time.sleep(sleep_interval) begins
PairSleep(i) ==
    /\ seqs[i].pc = "sleep"
    /\ seqs' = [seqs EXCEPT ![i].pc = "asleep",
                            ![i].wake = clock + Or(None, Or(cfg.sleep_interval,
                                                            SLEEP_INTERVAL_SECONDS))]
    /\ UNCHANGED <<engineVars, instances, routerVars, callVars, respondVars, max_failures,
                   num_failures, timeout, sleep_interval, executor, future, pc,
                   clock, delay, log, response, outcome>>

\* the sleep is over: the deadline test
PairCheck(i) ==
    /\ seqs[i].pc = "asleep"
    /\ clock >= seqs[i].wake
    /\ IF Expired(clock, seqs[i].deadline)
       THEN seqs' = [seqs EXCEPT ![i].pc = "raised", ![i].outcome = "RemoteTimeoutError"]
       ELSE seqs' = [seqs EXCEPT ![i].pc = "status"]
    /\ UNCHANGED <<engineVars, instances, routerVars, callVars, respondVars, max_failures,
                   num_failures, timeout, sleep_interval, executor, future, pc,
                   clock, delay, log, response, outcome>>

\* the data fetch with the sequence's token
PairFetch(i) ==
    /\ seqs[i].pc = "fetch"
    /\ \E resp \in Responses({"data"}) :
         seqs' = [seqs EXCEPT
                    ![i].pc = IF HandleOutcome(resp) = "RemoteFailedError"
                              THEN "raised" ELSE "returned",
                    ![i].asked = seqs[i].token,
                    ![i].outcome = HandleOutcome(resp)]
    /\ UNCHANGED <<engineVars, instances, routerVars, callVars, respondVars, max_failures,
                   num_failures, timeout, sleep_interval, executor, future, pc,
                   clock, delay, log, response, outcome>>

\* time passes for both sequences
PairTick ==
    /\ clock < MaxClock
    /\ \E i \in Sequences : ~PairDone(i)
    /\ clock' = clock + 1
    /\ UNCHANGED <<engineVars, pairVars, routerVars, callVars, respondVars, max_failures,
                   num_failures, timeout, sleep_interval, executor, future, pc,
                   delay, log, response, outcome>>

NewSequence(percall) ==
    [self |-> 0, percall |-> percall, pc |-> "idle", token |-> "none",
     asked |-> "none", deadline |-> None, wake |-> None, run |-> 0,
     outcome |-> "none"]

PairInit ==
    /\ cfg \in {[PlainConfig EXCEPT !.max_failures = m] : m \in {None, MaxFailures}}
    /\ seqs \in [Sequences -> {NewSequence(f) : f \in {None, 0, MaxFailures}}]
    /\ instances = <<>>
    /\ routers = <<>>
    /\ chainOf = <<>>
    /\ kwargs = EmptyDict
    /\ override = "None"
    /\ handler = "AsyncRequestHandler"
    /\ method = TaskMethod
    /\ max_failures = None
    /\ num_failures = 0
    /\ timeout = None
    /\ sleep_interval = None
    /\ executor = "none"
    /\ future = "none"
    /\ pc = "idle"
    /\ clock = 0
    /\ delay = 0
    /\ log = <<>>
    /\ response = [status_code |-> HTTP_OK, error |-> FALSE, result |-> "none"]
    /\ outcome = "none"
    /\ used = "None"
    /\ result = [create_from |-> "None", raw |-> "none"]
    /\ deser = NoEngine

PairNext ==
    \/ \E i \in Sequences : PairCall(i)
    \/ \E i \in Sequences : PairSubmit(i)
    \/ \E i \in Sequences : PairStatus(i)
    \/ \E i \in Sequences : PairSleep(i)
    \/ \E i \in Sequences : PairCheck(i)
    \/ \E i \in Sequences : PairFetch(i)
    \/ PairTick

PairSpec == PairInit /\ [][PairNext]_vars

\* the same sequence under the scheduling of a running thread: a step that
\* can be taken is eventually taken
FairSpec == Spec /\ WF_vars(Next)

\* ------------------------------------------------------------------------
\* Reading the request log
\* ------------------------------------------------------------------------
IsStatus(e) == e.kind = "status" /\ e.outcome # "inflight"

\* a status check that raised inside _report_ready
FailedCheck(e) == IsStatus(e) /\ e.outcome \in {"RemoteFailedError", "empty"}

\* a status check whose status field was read
GoodCheck(e) == IsStatus(e) /\ ~FailedCheck(e)

\* the status checks that have been answered, in order
StatusLog == SelectSeq(log, IsStatus)

RECURSIVE TrailingFails(_)
\* length of the run of failed status checks that ends the sequence
TrailingFails(s) ==
    IF s = <<>> \/ ~FailedCheck(s[Len(s)]) THEN 0
    ELSE 1 + TrailingFails(SubSeq(s, 1, Len(s) - 1))

\* length of the longest run of failed status checks
LongestRun(s) ==
    LET runs == {TrailingFails(SubSeq(s, 1, n)) : n \in 0..Len(s)}
    IN  CHOOSE m \in runs : \A r \in runs : r <= m

TotalFails(s) == Cardinality({i \in DOMAIN s : FailedCheck(s[i])})

LastIs(P(_)) == log # <<>> /\ P(log[Len(log)])

Rank(kind) == CASE kind = "submit" -> 0 [] kind = "status" -> 1 [] kind = "fetch" -> 2

Terminal == pc = "done"

\* ------------------------------------------------------------------------
\* C1: with tolerance N = _max_failures, a failed status check ends the
\* sequence with RemoteFailedError exactly when it is the (N+1)-th failure in
\* a row; a run of at most N failures is swallowed and the loop goes on to
\* its sleep and deadline test.
\* ------------------------------------------------------------------------
C1_FailureTolerance ==
    LastIs(FailedCheck) =>
        /\ TrailingFails(StatusLog) <= max_failures + 1
        /\ (outcome = "RemoteFailedError") <=> (TrailingFails(StatusLog) = max_failures + 1)
        /\ TrailingFails(StatusLog) <= max_failures =>
               pc \in {"sleep", "check", "status"} \/ outcome = "RemoteTimeoutError"

\* two failures were swallowed and the third in a row was fatal
C1_Witness ==
    /\ LastIs(FailedCheck)
    /\ max_failures = 2
    /\ TrailingFails(StatusLog) = 3
    /\ outcome = "RemoteFailedError"

\* ------------------------------------------------------------------------
\* C2: the failure counter is 0 after every status check that was read
\* ("ready" or not), so failures separated by a good read never add up: the
\* counter does not fail a sequence whose runs of failures are all at most
\* _max_failures long, however many failures there are in total.
\* ------------------------------------------------------------------------
C2_ResetOnSuccess ==
    /\ LastIs(GoodCheck) => num_failures = 0
    /\ LongestRun(StatusLog) <= max_failures =>
           ~(LastIs(FailedCheck) /\ outcome = "RemoteFailedError")
    /\ LastIs(FailedCheck) => num_failures = TrailingFails(StatusLog)

\* more failures in total than the tolerance, none of them fatal
C2_Witness ==
    /\ LastIs(GoodCheck)
    /\ max_failures >= 1
    /\ TotalFails(StatusLog) > max_failures
    /\ LongestRun(StatusLog) <= max_failures
    /\ num_failures = 0
    /\ outcome = "none"

\* ------------------------------------------------------------------------
\* C3: the requests of a poll sequence are ordered: the submit first and
\* once, status checks only after the submit returned a token, the data
\* fetch at most once and right after a status check that returned "ready",
\* nothing after the data fetch.
\* ------------------------------------------------------------------------
C3_RequestOrder ==
    /\ \A i \in DOMAIN log : (log[i].kind = "submit") <=> (i = 1)
    /\ \A i, j \in DOMAIN log : i < j => Rank(log[i].kind) <= Rank(log[j].kind)
    /\ \A i \in DOMAIN log : log[i].kind = "status" => log[1].outcome = "token"
    /\ \A i \in DOMAIN log : log[i].kind = "fetch" =>
           /\ i = Len(log)
           /\ i > 1
           /\ log[i - 1].kind = "status"
           /\ log[i - 1].outcome = "ready"
    /\ \A i \in DOMAIN log : i < Len(log) => log[i].outcome # "inflight"
    /\ Terminal => \A i \in DOMAIN log : log[i].outcome # "inflight"

\* a sequence that polled more than once and fetched its data
C3_Witness ==
    /\ Terminal
    /\ outcome = "data"
    /\ Len(StatusLog) >= 2
    /\ log[Len(log)].kind = "fetch"

\* ------------------------------------------------------------------------
\* C4 as claimed: once the clock is past the deadline while the task is
\* still polling, no further request is sent and the sequence can only end
\* with RemoteTimeoutError.
\* ------------------------------------------------------------------------
Polling == pc \in {"status", "status_wait", "sleep", "check"}

C4_TimeoutOncePastDeadline ==
    [][(Polling /\ clock > timeout) =>
          /\ Len(log') = Len(log)
          /\ pc' \in {"status", "status_wait", "sleep", "check", "done"}
          /\ (pc' = "done" => outcome' = "RemoteTimeoutError")]_vars

\* ------------------------------------------------------------------------
\* C4 as amended: the deadline is set once, when the submit response has
\* been read, to that time plus the timeout; it is compared with the clock
\* after every sleep, so before every status check but the first; when that
\* comparison finds the clock past the deadline the sequence ends with
\* RemoteTimeoutError and sends nothing more, whatever the failure counter,
\* and otherwise the next status check is sent.
\* ------------------------------------------------------------------------
C4_DeadlinePolicy ==
    [][/\ (pc = "submit_wait" /\ pc' = "status") => timeout' = clock + timeout
       /\ pc \in {"status", "status_wait", "sleep", "check", "fetch", "fetch_wait"} =>
              timeout' = timeout
       /\ pc = "check" =>
              IF clock > timeout
              THEN pc' = "done" /\ outcome' = "RemoteTimeoutError" /\ log' = log
              ELSE pc' = "status" /\ outcome' = outcome
       /\ pc = "sleep" => pc' = "check"
       /\ Terminal => log' = log]_vars

\* a timeout with failures counted but the tolerance not used up
C4_Witness ==
    /\ Terminal
    /\ outcome = "RemoteTimeoutError"
    /\ num_failures >= 1
    /\ num_failures <= max_failures
    /\ clock > timeout

\* ------------------------------------------------------------------------
\* C5: every poll sequence that starts eventually ends, and it ends with
\* the fetched data, a RemoteFailedError or a RemoteTimeoutError, when every
\* request returns and every sleep advances the clock by the sleep interval.
\* The part a finite run settles: a sequence that has ended has one of the
\* three outcomes.
\* ------------------------------------------------------------------------
C5_TerminalOutcome ==
    Terminal => outcome \in {"data", "RemoteFailedError", "RemoteTimeoutError"}

\* under FairSpec every sequence ends, and its outcome never changes afterwards
PollTerminates ==
    /\ <>Terminal
    /\ [][outcome # "none" => outcome' = outcome]_vars

\* ------------------------------------------------------------------------
\* Reading a call
\* ------------------------------------------------------------------------
\* the call has been dispatched
Dispatched == pc \notin {"call", "idle"}

\* entry i of the configured table accepts the call
Accepts(i) == CanHandle(cfg.handlers.table[i][1], routers[1].url, routers[1].method, kwargs)

\* the class whose handle sent the first request of the call
Executing == IF log = <<>> THEN "none"
             ELSE IF log[1].kind = "call" THEN "RequestHandler"
             ELSE "AsyncRequestHandler"

\* ------------------------------------------------------------------------
\* C6: when some predicate of the configured handler table accepts the call,
\* the call is executed by the strategy paired with the first accepting
\* predicate in table order, whatever later entries accept.
\* ------------------------------------------------------------------------
C6_FirstMatchWins ==
    (Dispatched /\ cfg.handlers.present) =>
        \A i \in DOMAIN cfg.handlers.table :
            (Accepts(i) /\ \A j \in 1..(i - 1) : ~Accepts(j)) =>
                /\ handler = cfg.handlers.table[i][2]
                /\ outcome # "NoHandlerError"
                /\ log # <<>> => Executing = cfg.handlers.table[i][2]

\* the first of two accepting entries executed the call, the second names
\* the other strategy
C6_Witness ==
    /\ cfg.handlers.present
    /\ Len(cfg.handlers.table) = 2
    /\ Accepts(1) /\ Accepts(2)
    /\ cfg.handlers.table[1][2] = "AsyncRequestHandler"
    /\ cfg.handlers.table[2][2] = "RequestHandler"
    /\ pc = "returned"
    /\ Executing = "AsyncRequestHandler"

\* ------------------------------------------------------------------------
\* C7: with a custom handler table that is empty, or in which no predicate
\* accepts the call, the call raises NoHandlerError and sends no request.
\* ------------------------------------------------------------------------
C7_NoHandlerError ==
    (Dispatched /\ cfg.handlers.present
                /\ \A i \in DOMAIN cfg.handlers.table : ~Accepts(i)) =>
        /\ outcome = "NoHandlerError"
        /\ pc = "raised"
        /\ log = <<>>

\* ------------------------------------------------------------------------
\* C8: with the default handler table a call is executed by the task
\* poller exactly when its dotted method name ends in ".task", and by the
\* synchronous request handler otherwise; NoHandlerError is never raised.
\* ------------------------------------------------------------------------
DotTask(m) ==
    /\ Len(m) >= 5
    /\ m[Len(m) - 4] = "."
    /\ m[Len(m) - 3] = "t"
    /\ m[Len(m) - 2] = "a"
    /\ m[Len(m) - 1] = "s"
    /\ m[Len(m)] = "k"

C8_DefaultTable ==
    (Dispatched /\ ~cfg.handlers.present) =>
        /\ handler = IF DotTask(routers[1].method)
                     THEN "AsyncRequestHandler" ELSE "RequestHandler"
        /\ outcome # "NoHandlerError"
        /\ log # <<>> => Executing = handler

\* a name that ends in "task" but not in ".task" went to the request handler
C8_Witness ==
    /\ ~cfg.handlers.present
    /\ routers[1].method = <<"a", ".", "x", "t", "a", "s", "k">>
    /\ pc = "returned"
    /\ Executing = "RequestHandler"

\* ------------------------------------------------------------------------
\* C9: the method name of a router built by a chain of attribute
\* extensions is the extension names joined with dots; an extension adds
\* one new router and leaves every existing router (method name, url,
\* headers, token, configuration) as it was.
\* ------------------------------------------------------------------------
C9_ChainImmutable ==
    /\ [](\A r \in DOMAIN routers :
            /\ routers[r].method = Join(chainOf[r])
            /\ routers[r].url = URL
            /\ routers[r].headers = HEADERS
            /\ routers[r].token = TOKEN
            /\ routers[r].configuration = cfg)
    /\ [][/\ Len(routers') = Len(routers) + 1
          /\ \A r \in DOMAIN routers : routers'[r] = routers[r]]_routers

\* a chain of three extensions and two branches from the same parent
C9_Witness ==
    \E r, b1, b2 \in DOMAIN routers :
        /\ Len(chainOf[r]) = 3
        /\ routers[r].method = <<"a", ".", "t", "a", "s", "k", ".", "a">>
        /\ b1 # b2
        /\ Len(chainOf[b1]) = 2
        /\ Len(chainOf[b2]) = 2
        /\ chainOf[b1][1] = chainOf[b2][1]
        /\ routers[b1].method # routers[b2].method

\* ------------------------------------------------------------------------
\* C10: the deserializer of a call is resolved in a fixed order: the
\* per-call override; else the configured value if it has create_from; else,
\* if it is a mapping, its entry for the full dotted method name (none when
\* absent); else, if it is callable, what it returns for the method name;
\* else none, and then the raw result is returned unchanged.
\* ------------------------------------------------------------------------
C10_DeserializerOrder ==
    pc = "returned" =>
        LET d == cfg.deserializers
            m == routers[1].method
        IN  /\ override # "None" => used = override
            /\ (override = "None" /\ ~d.present) => used = "None"
            /\ (override = "None" /\ d.present /\ d.create_from) => used = "D_cfg"
            /\ (override = "None" /\ d.present /\ ~d.create_from /\ d.dict) =>
                   used = IF m \in d.keys THEN "D_entry" ELSE "None"
            /\ (override = "None" /\ d.present /\ ~d.create_from /\ ~d.dict /\ d.callable) =>
                   used = IF m \in d.keys THEN "D_fn" ELSE "None"
            /\ (override = "None" /\ d.present /\ ~d.create_from /\ ~d.dict /\ ~d.callable) =>
                   used = "None"
            /\ result.create_from = used
            /\ result.raw = outcome

\* a configured value that is a mapping and has create_from was used itself
C10_Witness ==
    /\ pc = "returned"
    /\ override = "None"
    /\ cfg.deserializers.present
    /\ cfg.deserializers.create_from
    /\ cfg.deserializers.dict
    /\ routers[1].method \notin cfg.deserializers.keys
    /\ used = "D_cfg"
    /\ result = [create_from |-> "D_cfg", raw |-> "data"]

\* ------------------------------------------------------------------------
\* C11: one invocation of RequestHandler.handle sends exactly one request;
\* it returns the result field when the status is 200 and the response has
\* no error, raises RemoteFailedError for any other status or a populated
\* error field, and sends nothing again.
\* ------------------------------------------------------------------------
ResponseOk == response.status_code = 200 /\ ~response.error

C11_OneRoundTrip ==
    /\ (handler = "RequestHandler" /\ pc \in {"done", "returned", "raised"}) =>
           /\ Len(log) = 1
           /\ log[1].outcome # "inflight"
           /\ ResponseOk => (outcome = response.result /\ outcome # "RemoteFailedError")
           /\ ~ResponseOk => outcome = "RemoteFailedError"
    /\ handler = "RequestHandler" => Len(log) <= 1
    /\ (log # <<>> /\ log[Len(log)].outcome # "inflight") =>
           log[Len(log)].outcome =
               IF ResponseOk THEN response.result ELSE "RemoteFailedError"

\* a response with status 200 and an error was raised after one request
C11_Witness ==
    /\ handler = "RequestHandler"
    /\ pc = "raised"
    /\ response.status_code = 200
    /\ response.error
    /\ outcome = "RemoteFailedError"
    /\ Len(log) = 1

\* ------------------------------------------------------------------------
\* C12: whichever strategy executes a call made through the router, none of
\* the per-call reserved parameters appears in the params of a request that
\* is sent, and a method-name override replaces the envelope's method.
\* ------------------------------------------------------------------------
Reserved ==
    {"_deserializer", "method", "_timeout", "_sleep_interval", "_async",
     "_max_failures"}

C12_ReservedNotForwarded ==
    /\ \A i \in DOMAIN log : log[i].params \cap Reserved = {}
    /\ ("method" \in DOMAIN kwargs /\ pc \in {"done", "returned", "raised"}) =>
           /\ outcome # "TypeError"
           /\ log # <<>>
           /\ log[1].method = kwargs["method"]

\* ------------------------------------------------------------------------
\* Claims about the deserializers
\* ------------------------------------------------------------------------
DictDone ==
    /\ deser.pc \in {"returned", "raised"}
    /\ deser.kind = "DictDeserializer"
Constructed == DictDone /\ deser.calls = 1
Mapped == DOMAIN deser.input.data \cap DOMAIN deser.rules
Unmapped == DOMAIN deser.input.data \ DOMAIN deser.rules
PositionalKeys == {k \in Mapped : deser.rules[k].type = "int"}
KeywordKeys == Mapped \ PositionalKeys
\* the positional keys in ascending order of their rule index
ByIndex ==
    CHOOSE o \in Orders(PositionalKeys) :
        \A i, j \in DOMAIN o : i < j => deser.rules[o[i]].index < deser.rules[o[j]].index

\* C13: whatever order the raw keys are visited in, the values with an
\* integer rule reach the constructor as positional arguments in ascending
\* order of their rule index
C13_AscendingIndexOrder ==
    Constructed =>
        deser.out.arguments = [i \in DOMAIN ByIndex |-> deser.input.data[ByIndex[i]]]

\* C14: under FAIL a raw key without a rule raises DeserializerError and the
\* constructor is not invoked; when every raw key has a rule, FAIL gives what
\* IGNORE gives
C14_FailPolicy ==
    (DictDone /\ deser.policy = "FAIL" /\ deser.input.isdict) =>
        /\ Unmapped # {} =>
              /\ deser.pc = "raised"
              /\ deser.out.error = "DeserializerError"
              /\ deser.calls = 0
        /\ Unmapped = {} =>
              /\ deser.out = CreateFrom(deser.target, deser.rules, "IGNORE",
                                        deser.input, deser.order)
              /\ deser.calls = 1

C14_Witness ==
    /\ DictDone
    /\ deser.policy = "FAIL"
    /\ deser.input.isdict
    /\ Unmapped # {}
    /\ deser.rules # EmptyDict
    /\ deser.pc = "raised"

\* C15: only keys in both the raw mapping and the rule table are mapped by
\* rules; a raw key without a rule gives no constructor argument under
\* IGNORE, and under TO_KWARGS exactly the keyword argument named by the key
\* with the unchanged raw value
C15_UnmappedKeys ==
    (Constructed /\ deser.policy \in {"IGNORE", "TO_KWARGS"}) =>
        LET ruled == {MapValue(deser.rules, k, deser.input.data).keyword : k \in KeywordKeys}
        IN  /\ Len(deser.out.arguments) = Cardinality(PositionalKeys)
            /\ \A i \in DOMAIN deser.out.arguments :
                  \E k \in PositionalKeys : deser.out.arguments[i] = deser.input.data[k]
            /\ deser.policy = "IGNORE" =>
                  /\ DOMAIN deser.out.keywords = ruled
                  /\ \A kw \in ruled : \E k \in KeywordKeys :
                        deser.out.keywords[kw] = MapValue(deser.rules, k, deser.input.data).value
            /\ deser.policy = "TO_KWARGS" =>
                  /\ DOMAIN deser.out.keywords = ruled \cup Unmapped
                  /\ \A k \in Unmapped : deser.out.keywords[k] = deser.input.data[k]

C15_Witness ==
    /\ Constructed
    /\ deser.policy = "TO_KWARGS"
    /\ Unmapped # {}
    /\ KeywordKeys # {}
    /\ PositionalKeys # {}
    /\ DOMAIN deser.rules \ DOMAIN deser.input.data # {}
    /\ deser.pc = "returned"

\* C16: every failure of create_from reaches the caller as a DeserializerError
\* that wraps the cause, and a raw value that is not a mapping fails with
\* DeserializerError before any rule is applied
C16_AlwaysDeserializerError ==
    (DictDone /\ deser.pc = "raised") =>
        /\ deser.out.error = "DeserializerError"
        /\ ~deser.input.isdict => (deser.calls = 0 /\ deser.out.arguments = <<>>)

\* C17: over k raw mappings the sequence variant yields exactly k results,
\* the i-th one what the single-item create_from gives for the i-th mapping;
\* nothing is constructed before the result is consumed, and after one pass
\* nothing more is yielded
C17_LazySequence ==
    (deser.pc \in {"new", "iterating", "exhausted"}
        /\ deser.kind = "IterableDictDeserializer") =>
        /\ Len(deser.yielded) = deser.pos
        /\ deser.pos <= Len(deser.input)
        /\ \A i \in DOMAIN deser.yielded :
              /\ deser.orders[i] \in VisitOrders(deser.rules, deser.input[i])
              /\ deser.yielded[i] = CreateFrom(deser.target, deser.rules, deser.policy,
                                               deser.input[i], deser.orders[i])
        /\ deser.calls = Cardinality({i \in DOMAIN deser.yielded : deser.yielded[i].calls = 1})
        /\ deser.pc = "exhausted" => deser.pos = Len(deser.input)
        /\ (\A i \in DOMAIN deser.yielded : deser.yielded[i].error = "none")
              => deser.calls = deser.pos

C17_Witness ==
    /\ deser.pc = "exhausted"
    /\ deser.kind = "IterableDictDeserializer"
    /\ deser.stops = 2
    /\ Len(deser.input) = MaxItems
    /\ deser.input[1] # deser.input[2]
    /\ deser.calls = MaxItems
    /\ \A i \in DOMAIN deser.yielded : deser.yielded[i].error = "none"

\* ------------------------------------------------------------------------
\* Claims about the knobs, the asynchronous mode and concurrent sequences
\* ------------------------------------------------------------------------
\* the per-call value if supplied, else the configured one, else the default
Precedence(percall, configured, default) ==
    IF percall # None THEN percall
    ELSE IF configured # None THEN configured
    ELSE default

\* C18: timeout, sleep interval and tolerance of a poll sequence are the
\* per-call value when supplied, else the configured value, else 300, 5
\* and 1, for every supplied value including 0
C18_KnobPrecedence ==
    /\ pc = "submit_wait" =>
          /\ timeout = Precedence(Get(kwargs, "_timeout"), cfg.timeout, 300)
          /\ sleep_interval = Precedence(Get(kwargs, "_sleep_interval"),
                                         cfg.sleep_interval, 5)
    /\ (handler = "AsyncRequestHandler" /\ pc \notin {"idle", "call", "handle"}) =>
          max_failures = Precedence(Get(kwargs, "_max_failures"), cfg.max_failures, 1)

AsyncRequested == Truthy(Get(kwargs, "_async")) \/ cfg.run_async

\* C19: when asynchronous execution is requested the caller can take the
\* handle before any request has completed, every request of the sequence
\* runs on the worker pool and none on the caller's thread, and the pool is
\* the caller's, else the configured one, else a private one
C19_AsyncHandOff ==
    (handler = "AsyncRequestHandler" /\ pc \notin {"idle", "call", "handle"}) =>
        /\ AsyncRequested =>
              /\ future # "none"
              /\ executor = IF Get(kwargs, "_async") = 2 THEN "caller_pool"
                            ELSE IF cfg.async_executor THEN "cfg_pool"
                            ELSE "private_pool"
              /\ \A i \in DOMAIN log : log[i].thread = executor
              /\ result.raw \in {"none", "future"}
              /\ (pc = "submit" /\ result.raw = "none") => ENABLED AsyncRespond
        /\ ~AsyncRequested =>
              /\ future = "none"
              /\ \A i \in DOMAIN log : log[i].thread = "caller"
              /\ result.raw # "future"

C19_Witness ==
    /\ handler = "AsyncRequestHandler"
    /\ Get(kwargs, "_async") = 2
    /\ cfg.async_executor
    /\ executor = "caller_pool"
    /\ result.raw = "future"
    /\ Len(log) = 1
    /\ log[1].outcome = "inflight"
    /\ log[1].thread = "caller_pool"

Started(i) == seqs[i].pc # "idle"
OwnTolerance(i) == Tolerated(cfg, seqs[i].percall)

\* each running sequence has its own handler, whose tolerance and counter
\* are set by that sequence alone, and asks with its own token
PairPrivate ==
    \A i \in DOMAIN seqs : Started(i) =>
        /\ seqs[i].self \in DOMAIN instances
        /\ \A j \in DOMAIN seqs : (j # i /\ Started(j)) => seqs[j].self # seqs[i].self
        /\ instances[seqs[i].self].max_failures = OwnTolerance(i)
        /\ instances[seqs[i].self].num_failures = seqs[i].run
        /\ seqs[i].asked \in {"none", seqs[i].token}
        /\ seqs[i].run <= OwnTolerance(i) + 1
        /\ seqs[i].run = OwnTolerance(i) + 1 =>
              (seqs[i].pc = "raised" /\ seqs[i].outcome = "RemoteFailedError")

\* a step of one sequence leaves the other sequence and its handler alone
PairStep ==
    \A i, j \in DOMAIN seqs : (i # j /\ seqs'[i] # seqs[i]) =>
        /\ seqs'[j] = seqs[j]
        /\ Started(j) => instances'[seqs[j].self] = instances[seqs[j].self]

\* C20: two poll sequences running concurrently through one router each own
\* their token, deadline and failure counter: in every interleaving a status
\* check of one never changes the counter, the tolerance or the outcome of
\* the other
C20_PrivateTaskState == []PairPrivate /\ [][PairStep]_vars

C20_Witness ==
    /\ seqs # <<>>
    /\ seqs[1].pc = "sleep"
    /\ seqs[2].pc = "status"
    /\ seqs[1].run = 2
    /\ seqs[2].run = 0
    /\ seqs[2].asked # "none"
    /\ seqs[1].token # seqs[2].token
    /\ seqs[1].deadline # seqs[2].deadline
    /\ OwnTolerance(1) # OwnTolerance(2)

\* ------------------------------------------------------------------------
\* Claims about failures of the submit and about what the caller receives
\* ------------------------------------------------------------------------
SubmitFailed ==
    /\ log # <<>>
    /\ log[1].kind = "submit"
    /\ log[1].outcome \in {"RemoteFailedError", "empty"}

\* C21: when the submit request fails (status not 200, an error, or a result
\* without a token) the sequence ends with that failure at once: one submit,
\* nothing counted against the tolerance, no status check and no data fetch
C21_SubmitFailureFatal ==
    /\ SubmitFailed =>
          /\ pc \in {"done", "returned", "raised"}
          /\ outcome = IF log[1].outcome = "empty" THEN "KeyError" ELSE "RemoteFailedError"
          /\ Len(log) = 1
          /\ num_failures = 0
    /\ \A i \in DOMAIN log : log[i].kind = "submit" => i = 1

C21_Witness ==
    /\ SubmitFailed
    /\ log[1].outcome = "empty"
    /\ pc = "done"
    /\ max_failures > 0

\* C22: whenever a deserializer is resolved for a call, its create_from gets
\* the raw result of the executed remote call, for a task the result of the
\* data fetch, in synchronous and asynchronous mode alike
C22_DeserializerGetsRawResult ==
    result.create_from # "None" =>
        /\ log # <<>>
        /\ log[Len(log)].kind = "fetch"
        /\ result.raw = log[Len(log)].outcome

\* the ruled keys whose keyword is also the name of an unmapped raw key
Colliding ==
    {k \in KeywordKeys : MapValue(deser.rules, k, deser.input.data).keyword \in Unmapped}

\* C23: under TO_KWARGS, when an unmapped raw key has the name of the keyword
\* that a string rule or a transform rule produces for another key, the
\* constructor gets that keyword once, with the unmapped raw value, and the
\* collision raises no error: the call is the one made for the raw mapping
\* without the keys of those rules
C23_UnmappedOverrides ==
    (DictDone /\ deser.policy = "TO_KWARGS" /\ deser.input.isdict /\ Colliding # {}) =>
        LET rest == [isdict |-> TRUE,
                     data |-> [k \in DOMAIN deser.input.data \ Colliding |->
                                 deser.input.data[k]]]
            visit == SelectSeq(deser.order, LAMBDA k : k \notin Colliding)
        IN  /\ deser.calls = 1
            /\ \A k \in Colliding :
                  LET kw == MapValue(deser.rules, k, deser.input.data).keyword
                  IN  /\ kw \in DOMAIN deser.out.keywords
                      /\ deser.out.keywords[kw] = deser.input.data[kw]
            /\ deser.out = CreateFrom(deser.target, deser.rules, deser.policy, rest, visit)

C23_Witness ==
    /\ DictDone
    /\ deser.policy = "TO_KWARGS"
    /\ deser.input.isdict
    /\ \E k \in Colliding : deser.rules[k].type = "fn"
    /\ \E k \in Colliding : deser.rules[k].type = "str"
    /\ deser.pc = "returned"
    /\ deser.out.object["arg2"] = RawValue["arg2"]

\* C24: in asynchronous mode the handle call raises no outcome of the poll
\* sequence on the caller's thread: a submit failure, a RemoteFailedError of
\* exhausted tolerance, a RemoteTimeoutError and the fetched result are all
\* delivered through the returned handle only
C24_OutcomeThroughHandle ==
    (handler = "AsyncRequestHandler" /\ AsyncRequested
        /\ pc \notin {"idle", "call", "handle"}) =>
        /\ pc \notin {"raised", "returned"}
        /\ result.raw \in {"none", "future"}
        /\ future \in {"pending", "done"}
        /\ future = "done" <=> pc = "done"
        /\ future = "done" <=> outcome # "none"
        /\ outcome # "none" =>
              /\ log # <<>>
              /\ log[Len(log)].thread # "caller"
              /\ log[Len(log)].outcome # "inflight"

C24_Witness ==
    /\ handler = "AsyncRequestHandler"
    /\ cfg.run_async
    /\ ~Truthy(Get(kwargs, "_async"))
    /\ future = "done"
    /\ outcome = "RemoteTimeoutError"
    /\ result.raw = "future"

====
